---- MODULE Spec2Model ----
(***************************************************************************)
(* Host-authoritative game state synchronisation of                        *)
(* src/src/hooks/useGameConnection.ts.                                     *)
(*                                                                         *)
(* Every process of Procs runs one instance of the hook useGameConnection. *)
(* A process is named by the peer identity the transport gives it.  The    *)
(* transport (PeerJS) is the environment: it opens and closes data         *)
(* connections and delivers the messages of a connection in order.         *)
(*                                                                         *)
(* Two things of the React runtime are part of the state:                  *)
(*  - gameStateRef.current follows gameState only when the effect of line  *)
(*    37 runs (action SyncRef), so a handler may read the state of an      *)
(*    earlier render;                                                      *)
(*  - a handler reads the `role` of the render that created it.  The       *)
(*    handlers of inbound connections are created by initializePeer        *)
(*    (useCallback with dependencies [toast], line 140), the data handler  *)
(*    of an outbound connection by the joinGame that opened it.            *)
(***************************************************************************)
EXTENDS Integers, Sequences, FiniteSets, TLC

\* Bounds of the model.
MaxConns == 3      \* joinGame calls (data connections) in one behaviour
MaxCount == 2      \* largest playerCount of an initial state
MaxInits == 2      \* runs of the initializePeer effect per process
MaxRev == 1        \* rule updates passed to broadcastGameState
MaxRuleConns == 2  \* connections in the behaviours with rule updates
MaxPeerConns == 2  \* connections in the behaviours of the peers
MaxSyncConns == 2  \* connections in the behaviours where joiners read

\* The peer identities (myPeerId of each process).
Procs == {1, 2, 3}

\* gameState === null, myPeerId === '', connectionsRef.current[x] === undefined
NoState == [isNull |-> TRUE]
NoPeerId == 0
NoConn == 0

VARIABLES
    role,            \* useState role, line 28
    handlerRole,     \* `role` as the closures of initializePeer see it
    status,          \* useState status, line 27
    myPeerId,        \* useState myPeerId, line 26
    inits,           \* runs of initializePeer; peerRef.current is set when > 0
    gameState,       \* useState gameState, line 29
    gameStateRef,    \* gameStateRef.current, line 34
    connectionsRef,  \* connectionsRef.current: identity -> connection, line 35
    conns,           \* the data connections, with the messages in flight
    sent,            \* the messages the last step handed to the transport
    ev               \* the last step: which handler ran, for whom

vars == <<role, handlerRole, status, myPeerId, inits, gameState, gameStateRef,
          connectionsRef, conns, sent, ev>>

----------------------------------------------------------------------------
\* Messages (type Message, lines 12-23)

GameStateUpdate(s) == [type |-> "game_state_update", payload |-> s]
JoinRequest(id, name) ==
    [type |-> "player_join_request", payload |-> [peerId |-> id, playerName |-> name]]
GameFull == [type |-> "game_full"]
Welcome(s) == [type |-> "welcome", payload |-> s]

\* localPlayerName, the hook's argument: one name per process
localPlayerName(p) == p

----------------------------------------------------------------------------
\* Connections.  A connection c is opened by conns[c].src (joinGame) towards
\* conns[c].dst.  Each end has its own DataConnection object with its own
\* `open` flag:
\*   srcEnd: "connecting" -> "open" -> "closed"
\*   dstEnd: "none" -> "pending" (connection event handled) -> "open" -> "closed"

ConnIds == 1..Len(conns)

EndOf(cs, c, p) == IF cs[c].src = p THEN cs[c].srcEnd ELSE cs[c].dstEnd

\* conn.open
IsOpen(cs, c, p) == EndOf(cs, c, p) = "open"

\* conn.send(m) on p's end of c: queued towards the other end when the end is
\* open; PeerJS sends nothing on an end that is not open.
ConnSend(cs, c, p, m) ==
    IF ~IsOpen(cs, c, p) THEN cs
    ELSE IF cs[c].src = p
         THEN [cs EXCEPT ![c].toDst = Append(@, m)]
         ELSE [cs EXCEPT ![c].toSrc = Append(@, m)]

\* connectionsRef.current[id]?.send(m)
RegistrySend(cs, reg, p, id, m) ==
    IF reg[id] = NoConn THEN cs ELSE ConnSend(cs, reg[id], p, m)

\* what RegistrySend hands to the transport
RegistrySent(cs, reg, p, id, m) ==
    IF reg[id] # NoConn /\ IsOpen(cs, reg[id], p)
    THEN {[to |-> id, conn |-> reg[id], msg |-> m]}
    ELSE {}

\* Object.values(connectionsRef.current) filtered by conn.open, with their keys
OpenEntries(cs, reg, p) ==
    {id \in DOMAIN reg : reg[id] # NoConn /\ IsOpen(cs, reg[id], p)}

----------------------------------------------------------------------------
\* Game state (GameState and Player of @/lib/game, as this hook uses them)

Player(id, peerId, name) ==
    [id |-> id, peerId |-> peerId, name |-> name,
     hand |-> <<>>, isBidder |-> FALSE, isPartner |-> FALSE,
     collectedCards |-> <<>>, tricksWon |-> 0]

\* the states the caller of hostGame may pass: a capacity, no player yet or
\* the hosting player alone, an empty history.  rev stands for the game's own
\* fields (bids, tricks, ...), which only the game rules change.
InitialStates(p) ==
    {[id |-> 0, hostPeerId |-> NoPeerId, players |-> ps, playerCount |-> n,
      turnHistory |-> <<>>, rev |-> 0] :
        ps \in {<<>>, <<Player(0, p, localPlayerName(p))>>}, n \in 1..MaxCount}

\* generateRoomCode(): the room code is of no concern here, one code per host
generateRoomCode(p) == p

\* line 51 with > in place of >=
IsFullOffByOne(cur) == Len(cur.players) > cur.playerCount

\* line 51
IsFull(cur) == Len(cur.players) >= cur.playerCount

\* lines 56-61 without the peerId of line 59
NewPlayerNoIdentity(cur, m) == Player(Len(cur.players), NoPeerId, m.payload.playerName)

\* lines 56-61
NewPlayer(cur, m) == Player(Len(cur.players), m.payload.peerId, m.payload.playerName)

\* `${newPlayer.name} has joined.` and `A player has disconnected.`
JoinNotice(name) == <<name, "has joined.">>
LeaveNotice == <<"A player has disconnected.">>

\* lines 63-67
JoinState(cur, m) ==
    [cur EXCEPT !.players = Append(@, NewPlayer(cur, m)),
                !.turnHistory = Append(@, JoinNotice(NewPlayer(cur, m).name))]

\* line 113
RemovePlayer(players, peer) == SelectSeq(players, LAMBDA pl : pl.peerId # peer)

\* lines 115-119
LeaveState(cur, newPlayers) ==
    [cur EXCEPT !.players = newPlayers,
                !.turnHistory = Append(@, LeaveNotice)]

----------------------------------------------------------------------------
\* The handlers, as functions of what they read.  r is the `role` the
\* handler's closure holds, p the process, cs the connections, reg the
\* registry of p, cur gameStateRef.current.  The result: the role and the
\* game state the handler sets (setRole, setGameState), the connections after
\* its sends, what it sent, and the branch it took.

Result(rl, gs, cs, snt, out) ==
    [role |-> rl, gs |-> gs, conns |-> cs, sent |-> snt, out |-> out]

\* lines 189-193: one game_state_update on every registered open connection
BroadcastConns(cs, reg, p, newState) ==
    [c \in DOMAIN cs |->
        IF \E id \in OpenEntries(cs, reg, p) : reg[id] = c
        THEN ConnSend(cs, c, p, GameStateUpdate(newState))[c]
        ELSE cs[c]]

BroadcastSent(cs, reg, p, newState) ==
    {[to |-> id, conn |-> reg[id], msg |-> GameStateUpdate(newState)] :
        id \in OpenEntries(cs, reg, p)}

\* broadcastGameState without the setGameState of line 195
broadcastGameStateNoAdopt(r, p, cs, reg, rl, gs, newState) ==
    IF r # "host"
    THEN Result(rl, gs, cs, {}, "not_host")
    ELSE Result(rl, gs, BroadcastConns(cs, reg, p, newState),
                BroadcastSent(cs, reg, p, newState), "broadcast")

\* broadcastGameState, lines 186-196
broadcastGameState(r, p, cs, reg, rl, gs, newState) ==
    IF r # "host"
    THEN Result(rl, gs, cs, {}, "not_host")
    ELSE Result(rl, newState, BroadcastConns(cs, reg, p, newState),
                BroadcastSent(cs, reg, p, newState), "broadcast")

\* case 'player_join_request', lines 48-75
handleJoinRequest(r, p, m, fromPeerId, cs, reg, cur, rl, gs) ==
    IF ~(r = "host" /\ cur # NoState)
    THEN Result(rl, gs, cs, {}, "dropped")
    ELSE IF IsFull(cur)
    THEN Result(rl, gs, RegistrySend(cs, reg, p, fromPeerId, GameFull),
                RegistrySent(cs, reg, p, fromPeerId, GameFull), "full")
    ELSE LET newGameState == JoinState(cur, m)
             welcomed == RegistrySend(cs, reg, p, fromPeerId, Welcome(newGameState))
             b == broadcastGameState(r, p, welcomed, reg, rl, gs, newGameState)
         IN  Result(b.role, b.gs, b.conns,
                    RegistrySent(cs, reg, p, fromPeerId, Welcome(newGameState))
                        \cup b.sent,
                    "accepted")

\* handleIncomingMessage, lines 39-85
handleIncomingMessage(r, p, m, fromPeerId, cs, reg, cur, rl, gs) ==
    CASE m.type = "game_state_update" ->
            IF r = "peer"
            THEN Result(rl, m.payload, cs, {}, "applied")
            ELSE Result(rl, gs, cs, {}, "dropped")
      [] m.type = "player_join_request" ->
            handleJoinRequest(r, p, m, fromPeerId, cs, reg, cur, rl, gs)
      [] m.type = "welcome" ->
            Result(rl, m.payload, cs, {}, "applied")
      [] m.type = "game_full" ->
            Result("none", gs, cs, {}, "rejected")

\* conn.on('close'), lines 109-124, up to the registry's update: c is the
\* closing connection, already marked closed in cs
handleClose(r, p, peer, cs, reg, cur, rl, gs) ==
    IF ~(r = "host" /\ cur # NoState)
    THEN Result(rl, gs, cs, {}, "dropped")
    ELSE LET newPlayers == RemovePlayer(cur.players, peer)
         IN  IF Len(newPlayers) < Len(cur.players)
             THEN broadcastGameState(r, p, cs, reg, rl, gs, LeaveState(cur, newPlayers))
             ELSE Result(rl, gs, cs, {}, "no_player")

----------------------------------------------------------------------------
\* Initial state: the hook's first render (lines 26-35), before any effect

Event(op, p, peer, c, out) ==
    [op |-> op, proc |-> p, peer |-> peer, conn |-> c, out |-> out]

\* no handler of a message, of a close or of a rule update ran in the last step
Idle == Event("", 0, 0, 0, "")

Init ==
    /\ role = [p \in Procs |-> "none"]
    /\ handlerRole = [p \in Procs |-> "none"]
    /\ status = [p \in Procs |-> "disconnected"]
    /\ myPeerId = [p \in Procs |-> NoPeerId]
    /\ inits = [p \in Procs |-> 0]
    /\ gameState = [p \in Procs |-> NoState]
    /\ gameStateRef = [p \in Procs |-> NoState]
    /\ connectionsRef = [p \in Procs |-> [id \in Procs |-> NoConn]]
    /\ conns = <<>>
    /\ sent = {}
    /\ ev = Idle

\* the transport knows the peer of p: its 'open' event has fired
Available(p) == myPeerId[p] # NoPeerId /\ status[p] # "connecting"

\* peerRef.current.destroy(): the ends p holds are closed
DestroyEnds(cs, p) ==
    [c \in DOMAIN cs |->
        IF cs[c].src = p /\ cs[c].srcEnd # "closed"
        THEN [cs[c] EXCEPT !.srcEnd = "closed"]
        ELSE IF cs[c].dst = p /\ cs[c].dstEnd \in {"pending", "open"}
        THEN [cs[c] EXCEPT !.dstEnd = "closed"]
        ELSE cs[c]]

\* The effect of lines 142-147 runs initializePeer (lines 87-140): at mount,
\* and again when useCallback returns a new initializePeer because `toast`
\* changed.  The handlers it registers keep the role of this render.  A
\* re-run is taken only while p holds no open connection, so no close handler
\* of the destroyed peer has work to do.
InitializePeer(p) ==
    /\ inits[p] < MaxInits
    /\ \A c \in ConnIds : (p \in {conns[c].src, conns[c].dst}) => ~IsOpen(conns, c, p)
    /\ inits' = [inits EXCEPT ![p] = @ + 1]
    /\ handlerRole' = [handlerRole EXCEPT ![p] = role[p]]
    /\ status' = [status EXCEPT ![p] = "connecting"]
    /\ conns' = DestroyEnds(conns, p)
    /\ sent' = {}
    /\ ev' = Idle
    /\ UNCHANGED <<role, myPeerId, gameState, gameStateRef, connectionsRef>>

\* newPeer.on('open'), lines 98-102
PeerOpen(p) ==
    /\ inits[p] > 0
    /\ status[p] = "connecting"
    /\ myPeerId' = [myPeerId EXCEPT ![p] = p]
    /\ status' = [status EXCEPT ![p] = "connected"]
    /\ sent' = {}
    /\ ev' = Idle
    /\ UNCHANGED <<role, handlerRole, inits, gameState, gameStateRef, connectionsRef, conns>>

\* newPeer.on('error'), lines 128-138, for an error other than peer-unavailable
PeerError(p) ==
    /\ inits[p] > 0
    /\ status[p] = "connected"
    /\ status' = [status EXCEPT ![p] = "error"]
    /\ sent' = {}
    /\ ev' = Event("peer_error", p, 0, 0, "network")
    /\ UNCHANGED <<role, handlerRole, myPeerId, inits, gameState, gameStateRef,
                   connectionsRef, conns>>

\* newPeer.on('error') with err.type === 'peer-unavailable', lines 130-133:
\* the target of a connecting connection is not known to the transport
PeerUnavailable(c) ==
    /\ c \in ConnIds
    /\ conns[c].srcEnd = "connecting"
    /\ conns[c].dstEnd = "none"
    /\ ~Available(conns[c].dst)
    /\ LET p == conns[c].src
       IN  /\ role' = [role EXCEPT ![p] = "none"]
           /\ gameState' = [gameState EXCEPT ![p] = NoState]
           /\ status' = [status EXCEPT ![p] = "error"]
           /\ conns' = [conns EXCEPT ![c].srcEnd = "closed"]
           /\ sent' = {}
           /\ ev' = Event("peer_error", p, conns[c].dst, c, "peer-unavailable")
    /\ UNCHANGED <<handlerRole, myPeerId, inits, gameStateRef, connectionsRef>>

\* hostGame, lines 149-158
hostGame(p, initialState) ==
    /\ myPeerId[p] # NoPeerId
    /\ role' = [role EXCEPT ![p] = "host"]
    /\ gameState' = [gameState EXCEPT ![p] =
           [initialState EXCEPT !.id = generateRoomCode(p), !.hostPeerId = myPeerId[p]]]
    /\ sent' = {}
    /\ ev' = Idle
    /\ UNCHANGED <<handlerRole, status, myPeerId, inits, gameStateRef, connectionsRef, conns>>

\* joinGame, lines 160-184: the connection is created and its handlers keep
\* the role, the identity and the name of the calling render
joinGame(p, hostPeerId) ==
    /\ inits[p] > 0
    /\ myPeerId[p] # NoPeerId
    /\ hostPeerId # p
    /\ conns' = Append(conns,
           [src |-> p, dst |-> hostPeerId, role |-> role[p], peerId |-> myPeerId[p],
            playerName |-> localPlayerName(p), srcEnd |-> "connecting",
            dstEnd |-> "none", toDst |-> <<>>, toSrc |-> <<>>])
    /\ role' = [role EXCEPT ![p] = "peer"]
    /\ sent' = {}
    /\ ev' = Idle
    /\ UNCHANGED <<handlerRole, status, myPeerId, inits, gameState, gameStateRef,
                   connectionsRef>>

\* newPeer.on('connection'), lines 104-106: the inbound connection is registered
handleConnection(c) ==
    /\ c \in ConnIds
    /\ conns[c].dstEnd = "none"
    /\ conns[c].srcEnd = "connecting"
    /\ Available(conns[c].dst)
    /\ connectionsRef' = [connectionsRef EXCEPT ![conns[c].dst][conns[c].src] = c]
    /\ conns' = [conns EXCEPT ![c].dstEnd = "pending"]
    /\ sent' = {}
    /\ ev' = Idle
    /\ UNCHANGED <<role, handlerRole, status, myPeerId, inits, gameState, gameStateRef>>

\* conn.on('open') of an inbound connection, lines 107-109: from now on its
\* data and close events are handled
inboundOpen(c) ==
    /\ c \in ConnIds
    /\ conns[c].dstEnd = "pending"
    /\ conns[c].srcEnd # "closed"
    /\ conns' = [conns EXCEPT ![c].dstEnd = "open"]
    /\ sent' = {}
    /\ ev' = Idle
    /\ UNCHANGED <<role, handlerRole, status, myPeerId, inits, gameState, gameStateRef,
                   connectionsRef>>

\* conn.on('open') of joinGame, lines 170-175: register, send the join request
outboundOpen(c) ==
    /\ c \in ConnIds
    /\ conns[c].srcEnd = "connecting"
    /\ conns[c].dstEnd \in {"pending", "open"}
    /\ LET p == conns[c].src
           m == JoinRequest(conns[c].peerId, conns[c].playerName)
           opened == [conns EXCEPT ![c].srcEnd = "open"]
       IN  /\ connectionsRef' = [connectionsRef EXCEPT ![p][conns[c].dst] = c]
           /\ conns' = ConnSend(opened, c, p, m)
           /\ sent' = {[to |-> conns[c].dst, conn |-> c, msg |-> m]}
           /\ ev' = Idle
    /\ UNCHANGED <<role, handlerRole, status, myPeerId, inits, gameState, gameStateRef>>

\* what a handler's result sets
Apply(p, res) ==
    /\ role' = [role EXCEPT ![p] = res.role]
    /\ gameState' = [gameState EXCEPT ![p] = res.gs]
    /\ conns' = res.conns
    /\ sent' = res.sent

\* conn.on('data') of an inbound connection, line 108
inboundData(c) ==
    /\ c \in ConnIds
    /\ conns[c].dstEnd = "open"
    /\ conns[c].toDst # <<>>
    /\ LET p == conns[c].dst
           m == Head(conns[c].toDst)
           rest == [conns EXCEPT ![c].toDst = Tail(@)]
           res == handleIncomingMessage(handlerRole[p], p, m, conns[c].src, rest,
                      connectionsRef[p], gameStateRef[p], role[p], gameState[p])
       IN  /\ Apply(p, res)
           /\ ev' = Event(m.type, p, conns[c].src, c, res.out)
    /\ UNCHANGED <<handlerRole, status, myPeerId, inits, gameStateRef, connectionsRef>>

\* conn.on('data') of joinGame, line 177
outboundData(c) ==
    /\ c \in ConnIds
    /\ conns[c].srcEnd = "open"
    /\ conns[c].toSrc # <<>>
    /\ LET p == conns[c].src
           m == Head(conns[c].toSrc)
           rest == [conns EXCEPT ![c].toSrc = Tail(@)]
           res == handleIncomingMessage(conns[c].role, p, m, conns[c].dst, rest,
                      connectionsRef[p], gameStateRef[p], role[p], gameState[p])
       IN  /\ Apply(p, res)
           /\ ev' = Event(m.type, p, conns[c].dst, c, res.out)
    /\ UNCHANGED <<handlerRole, status, myPeerId, inits, gameStateRef, connectionsRef>>

\* conn.on('close') of an inbound connection, lines 109-124
inboundClose(c) ==
    /\ c \in ConnIds
    /\ conns[c].dstEnd = "open"
    /\ LET p == conns[c].dst
           closed == [conns EXCEPT ![c].dstEnd = "closed"]
           res == handleClose(handlerRole[p], p, conns[c].src, closed,
                      connectionsRef[p], gameStateRef[p], role[p], gameState[p])
       IN  /\ Apply(p, res)
           /\ connectionsRef' = [connectionsRef EXCEPT ![p][conns[c].src] = NoConn]
           /\ ev' = Event("close", p, conns[c].src, c, res.out)
    /\ UNCHANGED <<handlerRole, status, myPeerId, inits, gameStateRef>>

\* the outbound connection closes: joinGame registers no close handler
outboundClose(c) ==
    /\ c \in ConnIds
    /\ conns[c].srcEnd = "open"
    /\ conns' = [conns EXCEPT ![c].srcEnd = "closed"]
    /\ sent' = {}
    /\ ev' = Idle
    /\ UNCHANGED <<role, handlerRole, status, myPeerId, inits, gameState, gameStateRef,
                   connectionsRef>>

\* conn.on('error') of joinGame, lines 179-183
connError(c) ==
    /\ c \in ConnIds
    /\ conns[c].srcEnd \in {"connecting", "open"}
    /\ role' = [role EXCEPT ![conns[c].src] = "none"]
    /\ conns' = [conns EXCEPT ![c].srcEnd = "closed"]
    /\ sent' = {}
    /\ ev' = Event("conn_error", conns[c].src, conns[c].dst, c, "")
    /\ UNCHANGED <<handlerRole, status, myPeerId, inits, gameState, gameStateRef,
                   connectionsRef>>

\* the game rules change their part of the state
RuleUpdate(gs) == [gs EXCEPT !.rev = @ + 1]

\* the caller of the hook passes a rule update to the broadcastGameState of the
\* current render (line 198)
ruleUpdate(p) ==
    /\ gameState[p] # NoState
    /\ gameState[p].rev < MaxRev
    /\ LET res == broadcastGameState(role[p], p, conns, connectionsRef[p], role[p],
                      gameState[p], RuleUpdate(gameState[p]))
       IN  /\ Apply(p, res)
           /\ ev' = Event("ruleUpdate", p, 0, 0, res.out)
    /\ UNCHANGED <<handlerRole, status, myPeerId, inits, gameStateRef, connectionsRef>>

\* useEffect(() => { gameStateRef.current = gameState; }, [gameState]), line 37
SyncRef(p) ==
    /\ gameStateRef[p] # gameState[p]
    /\ gameStateRef' = [gameStateRef EXCEPT ![p] = gameState[p]]
    /\ sent' = {}
    /\ ev' = Idle
    /\ UNCHANGED <<role, handlerRole, status, myPeerId, inits, gameState, connectionsRef,
                   conns>>

----------------------------------------------------------------------------
\* The environment of the host: the users and the transport.
\*
\* Process 1 hosts, processes 2 and 3 join it.  The processes mount one after
\* the other and the users act once every process has its identity.  The
\* host's initializePeer may run again.  The joiners take their first seats in
\* the order of their names (they are interchangeable).  An inbound
\* connection opens before its outbound end does.  What the host sends stays
\* in flight: a joiner sends nothing after its join request, so the host does
\* not depend on what the joiners do with it.

Hosts == {1}
Joiners == {2, 3}

Ready == \A q \in Procs : myPeerId[q] # NoPeerId

Mount(p) ==
    /\ inits[p] = 0
    /\ \A q \in Procs : q < p => myPeerId[q] # NoPeerId
    /\ InitializePeer(p)

Remount(p) ==
    /\ Ready
    /\ InitializePeer(p)

UserHosts(p, s) ==
    /\ Ready
    /\ gameState[p] = NoState
    /\ hostGame(p, s)

UserJoins(p, h, max) ==
    /\ Ready
    /\ Available(h)
    /\ Len(conns) < max
    /\ p = 3 => \E c \in ConnIds : conns[c].src = 2
    /\ joinGame(p, h)

TransportOpens(c) ==
    /\ c \in ConnIds
    /\ conns[c].dstEnd = "open"
    /\ outboundOpen(c)

\* the steps of the host's environment, with at most max connections
HostEnv(max) ==
    \/ \E p \in Procs : Mount(p)
    \/ \E p \in Hosts : Remount(p)
    \/ \E p \in Procs : PeerOpen(p)
    \/ \E p \in Hosts : \E s \in InitialStates(p) : UserHosts(p, s)
    \/ \E p \in Joiners : \E h \in Hosts : UserJoins(p, h, max)
    \/ \E c \in 1..max : handleConnection(c)
    \/ \E c \in 1..max : inboundOpen(c)
    \/ \E c \in 1..max : TransportOpens(c)
    \/ \E c \in 1..max : inboundData(c)
    \/ \E c \in 1..max : inboundClose(c)
    \/ \E p \in Procs : SyncRef(p)

Next == HostEnv(MaxConns)

Spec == Init /\ [][Next]_vars

\* The same environment with the game's rule updates, on fewer connections.
NextRules ==
    \/ HostEnv(MaxRuleConns)
    \/ \E p \in Hosts : ruleUpdate(p)

SpecRules == Init /\ [][NextRules]_vars

\* The environment of a peer.  Process 2 joins process 1, which hosts as
\* before, or process 3, which never hosts.  The transport delivers what the
\* host sends, closes connections and reports errors.
Peers == {2}
Targets == {1, 3}

UserJoinsAny(p, h) ==
    /\ Ready
    /\ Len(conns) < MaxPeerConns
    /\ joinGame(p, h)

NextPeers ==
    \/ \E p \in Procs : Mount(p)
    \/ \E p \in Hosts : Remount(p)
    \/ \E p \in Procs : PeerOpen(p)
    \/ \E p \in Peers : PeerError(p)
    \/ \E p \in Hosts : \E s \in InitialStates(p) : UserHosts(p, s)
    \/ \E p \in Peers : \E h \in Targets : UserJoinsAny(p, h)
    \/ \E c \in 1..MaxPeerConns : PeerUnavailable(c)
    \/ \E c \in 1..MaxPeerConns : handleConnection(c)
    \/ \E c \in 1..MaxPeerConns : inboundOpen(c)
    \/ \E c \in 1..MaxPeerConns : TransportOpens(c)
    \/ \E c \in 1..MaxPeerConns : inboundData(c)
    \/ \E c \in 1..MaxPeerConns : outboundData(c)
    \/ \E c \in 1..MaxPeerConns : inboundClose(c)
    \/ \E c \in 1..MaxPeerConns : outboundClose(c)
    \/ \E c \in 1..MaxPeerConns : connError(c)
    \/ \E p \in Procs : SyncRef(p)

SpecPeers == Init /\ [][NextPeers]_vars

\* The environment of a process that changes its role.  Process 2 may host
\* as well as join; no connection closes once it is open.
NextRoles ==
    \/ \E p \in Procs : Mount(p)
    \/ \E p \in Hosts : Remount(p)
    \/ \E p \in Procs : PeerOpen(p)
    \/ \E p \in Hosts \cup Peers : \E s \in InitialStates(p) : UserHosts(p, s)
    \/ \E p \in Peers : \E h \in Targets : UserJoinsAny(p, h)
    \/ \E c \in 1..MaxPeerConns : PeerUnavailable(c)
    \/ \E c \in 1..MaxPeerConns : handleConnection(c)
    \/ \E c \in 1..MaxPeerConns : inboundOpen(c)
    \/ \E c \in 1..MaxPeerConns : TransportOpens(c)
    \/ \E c \in 1..MaxPeerConns : inboundData(c)
    \/ \E c \in 1..MaxPeerConns : outboundData(c)
    \/ \E p \in Procs : SyncRef(p)

SpecRoles == Init /\ [][NextRoles]_vars

\* The environment of the host with joiners that handle what the host sends
\* them, on fewer connections.
NextSync ==
    \/ HostEnv(MaxSyncConns)
    \/ \E c \in 1..MaxSyncConns : outboundData(c)

SpecSync == Init /\ [][NextSync]_vars

\* The same behaviours under the scheduling the code relies on: the transport
\* is reliable (line 167), so a message in flight on an open connection is
\* handled, and React runs the effect of line 37 after a render.
FairSync ==
    /\ SpecSync
    /\ WF_vars(\E c \in 1..MaxSyncConns : inboundData(c))
    /\ WF_vars(\E c \in 1..MaxSyncConns : outboundData(c))
    /\ WF_vars(\E p \in Procs : SyncRef(p))

----------------------------------------------------------------------------
\* What the claims speak of

\* the messages of one type among those a step sent
OfType(msgs, t) == {x \in msgs : x.msg.type = t}

\* a join request is the next message of inbound connection c
JoinRequestAt(c) ==
    /\ conns[c].dstEnd = "open"
    /\ conns[c].toDst # <<>>
    /\ Head(conns[c].toDst).type = "player_join_request"

\* the step handles the join request of connection c at a process in Host role
HostHandlesJoin(c) ==
    /\ JoinRequestAt(c)
    /\ role[conns[c].dst] = "host"
    /\ gameState[conns[c].dst] # NoState
    /\ inboundData(c)

\* the step handles the join request of connection c and accepts it
JoinAccepted(c) ==
    /\ JoinRequestAt(c)
    /\ inboundData(c)
    /\ ev'.out = "accepted"

\* the step handles the close of inbound connection c at a process in Host role
HostHandlesClose(c) ==
    /\ role[conns[c].dst] = "host"
    /\ gameState[conns[c].dst] # NoState
    /\ inboundClose(c)

HasPlayer(gs, peer) == \E i \in DOMAIN gs.players : gs.players[i].peerId = peer

\* C1: while a process is in Host role, its players list never has more
\* entries than playerCount, whatever joins and closes it has handled.
C1_PlayersWithinCapacity ==
    \A p \in Procs :
        (role[p] = "host" /\ gameState[p] # NoState)
            => Len(gameState[p].players) <= gameState[p].playerCount

\* a host that a joiner has filled has just turned a join request away
C1_Witness ==
    \E p \in Procs :
        /\ role[p] = "host"
        /\ ev.proc = p /\ ev.out = "full"
        /\ Len(gameState[p].players) = gameState[p].playerCount
        /\ \E i \in DOMAIN gameState[p].players : gameState[p].players[i].peerId # p

\* C2: a join request handled by a process in Host role whose players list is
\* full leaves its game state as it was, and exactly one message is sent: a
\* GameFull, to the requester.  The handler is one created in Host role and
\* the ref holds the state of the last render.
C2_FullJoinRejected ==
    [][\A c \in ConnIds :
          (/\ HostHandlesJoin(c)
           /\ IsFull(gameState[conns[c].dst])
           /\ handlerRole[conns[c].dst] = "host"
           /\ gameStateRef[conns[c].dst] = gameState[conns[c].dst])
              => /\ gameState'[conns[c].dst] = gameState[conns[c].dst]
                 /\ \E k \in ConnIds :
                        sent' = {[to |-> conns[c].src, conn |-> k, msg |-> GameFull]}]_vars

\* C3: with no player at the start and no disconnect, every accepted join adds
\* one entry to the host's players list and every ordinalId is its index.
C3_AcceptedJoinsCounted ==
    [][\A c \in ConnIds :
          (/\ HostHandlesJoin(c)
           /\ ev'.out = "accepted"
           /\ ~HasPlayer(gameState[conns[c].dst], conns[c].dst)
           /\ \A d \in ConnIds : conns[d].dstEnd # "closed")
              => LET before == gameState[conns[c].dst].players
                     after == gameState'[conns[c].dst].players
                 IN  /\ Len(after) = Len(before) + 1
                     /\ \A i \in DOMAIN after : after[i].id = i - 1]_vars

\* C4: no two players of a host's players list have the same ordinalId.
C4_OrdinalIdsUnique ==
    \A p \in Procs :
        (role[p] = "host" /\ gameState[p] # NoState)
            => \A i, j \in DOMAIN gameState[p].players :
                   gameState[p].players[i].id = gameState[p].players[j].id => i = j

\* C5: on an accepted join, a Welcome that is sent goes to the joiner and its
\* state has a Player with the joiner's identity, and every message of the
\* step (the Welcome and the GameStateUpdates) carries the same state.
C5_WelcomeCarriesJoiner ==
    [][\A c \in ConnIds :
          JoinAccepted(c)
              => /\ \A w \in OfType(sent', "welcome") :
                        /\ w.to = conns[c].src
                        /\ HasPlayer(w.msg.payload, conns[c].src)
                 /\ \A a, b \in sent' : a.msg.payload = b.msg.payload]_vars

\* a join was accepted: the joiner got its Welcome, another peer the update
C5_Witness ==
    /\ ev.out = "accepted"
    /\ \E w \in OfType(sent, "welcome") : w.to = ev.peer
    /\ \E g \in OfType(sent, "game_state_update") : g.to # ev.peer

\* C7: on an accepted join the joiner is sent exactly one Welcome and no
\* GameStateUpdate.
C7_JoinerGetsWelcomeOnly ==
    [][\A c \in ConnIds :
          JoinAccepted(c)
              => /\ Cardinality({w \in OfType(sent', "welcome") : w.to = conns[c].src}) = 1
                 /\ \A g \in OfType(sent', "game_state_update") : g.to # conns[c].src]_vars

\* C10: a close handled by a process in Host role for a peer that is no Player
\* of its players list leaves its game state as it was and sends nothing.
C10_CloseOfStrangerIsNoOp ==
    [][\A c \in ConnIds :
          (HostHandlesClose(c) /\ ~HasPlayer(gameState[conns[c].dst], conns[c].src))
              => /\ gameState'[conns[c].dst] = gameState[conns[c].dst]
                 /\ sent' = {}]_vars

\* the step handled a mutation of the host's state at p: an accepted join, a
\* close that removed a player, or a rule update that was broadcast
HostMutation(p) ==
    /\ ev'.proc = p
    /\ ev'.out \in {"accepted", "broadcast"}

\* C6: after a host-side mutation, every connection registered and open at
\* that moment, but for the joiner that is sent the Welcome, is sent a
\* GameStateUpdate with the state the host adopts.
C6_MutationIsBroadcast ==
    [][\A p \in Procs :
          HostMutation(p)
              => \A id \in OpenEntries(conns', connectionsRef[p], p) :
                     \/ ev'.out = "accepted" /\ id = ev'.peer
                     \/ [to |-> id, conn |-> connectionsRef[p][id],
                         msg |-> GameStateUpdate(gameState'[p])] \in sent']_vars

\* a rule update went out to two peers
C6_Witness ==
    /\ ev.op = "ruleUpdate"
    /\ ev.out = "broadcast"
    /\ Cardinality(OfType(sent, "game_state_update")) >= 2
    /\ \A g \in sent : g.msg.payload = gameState[ev.proc]

\* the host a process designated: the target of its latest joinGame
DesignatedHost(p) ==
    LET mine == {c \in ConnIds : conns[c].src = p}
    IN  conns[CHOOSE c \in mine : \A d \in mine : d <= c].dst

\* the step delivers a message to p over its end of connection c
MessageStepAt(c, p) ==
    \/ conns[c].dst = p /\ inboundData(c)
    \/ conns[c].src = p /\ outboundData(c)

\* the identity at the other end of connection c
Sender(c, p) == IF conns[c].src = p THEN conns[c].dst ELSE conns[c].src

\* C8: a message changes the cached state of a process in Peer role only if
\* its sender is the host the process designated in joinGame.
C8_OnlyDesignatedHostUpdates ==
    [][\A c \in ConnIds : \A p \in Procs :
          (/\ role[p] = "peer"
           /\ MessageStepAt(c, p)
           /\ gameState'[p] # gameState[p])
              => Sender(c, p) = DesignatedHost(p)]_vars

\* C9: a process in Host role stays in Host role.
C9_HostStaysHost ==
    [][\A p \in Procs : role[p] = "host" => role'[p] = "host"]_vars

\* the inbound connections of p, other than c, that are open after the step
RemainingOpen(p, c) ==
    {d \in ConnIds : d # c /\ conns[d].dst = p /\ conns'[d].dstEnd = "open"}

\* C11: a close handled by a process in Host role, with a handler created in
\* Host role, for a peer that is a Player: the adopted state is the previous
\* one without that peer's Player, the others in their order, its turnHistory
\* the previous one and one disconnect notice, and it is sent as a
\* GameStateUpdate on every inbound connection that remains open.
C11_CloseOfPlayerRemovesIt ==
    [][\A c \in ConnIds :
          (/\ HostHandlesClose(c)
           /\ handlerRole[conns[c].dst] = "host"
           /\ HasPlayer(gameState[conns[c].dst], conns[c].src))
              => LET p == conns[c].dst
                 IN  /\ gameState'[p].players =
                            RemovePlayer(gameState[p].players, conns[c].src)
                     /\ gameState'[p].turnHistory =
                            Append(gameState[p].turnHistory, LeaveNotice)
                     /\ \A d \in RemainingOpen(p, c) :
                            [to |-> conns[d].src, conn |-> d,
                             msg |-> GameStateUpdate(gameState'[p])] \in sent']_vars

\* a GameStateUpdate from the host p designated is the next message of the
\* outbound connection c of a process in Peer role
UpdateFromHostAt(c) ==
    /\ conns[c].srcEnd = "open"
    /\ conns[c].toSrc # <<>>
    /\ Head(conns[c].toSrc).type = "game_state_update"
    /\ role[conns[c].src] = "peer"
    /\ conns[c].dst = DesignatedHost(conns[c].src)

\* C12: a process in Peer role that handles GameStateUpdate(S) from its host
\* holds S as its cached state afterwards, whatever it held before (and so a
\* second GameStateUpdate(S) leaves S in place).
C12_UpdateReplacesState ==
    [][\A c \in ConnIds :
          (UpdateFromHostAt(c) /\ outboundData(c))
              => gameState'[conns[c].src] = Head(conns[c].toSrc).payload]_vars

\* q holds a state it was welcomed with and a connection to h open at both ends
WelcomedAndOpen(q, h) ==
    /\ gameState[q] # NoState
    /\ \E c \in ConnIds :
           /\ conns[c].src = q /\ conns[c].dst = h
           /\ conns[c].srcEnd = "open" /\ conns[c].dstEnd = "open"

\* C13: a welcomed peer whose connection to the host stays open comes to hold
\* the host's state.  (The host's mutations are finitely many here, and every
\* message sent is delivered.)
C13_PeersConverge ==
    \A h \in Hosts : \A q \in Joiners :
        WelcomedAndOpen(q, h)
            ~> (~WelcomedAndOpen(q, h) \/ gameState[q] = gameState[h])

IsPrefix(a, b) == Len(a) <= Len(b) /\ SubSeq(b, 1, Len(a)) = a

\* C14: when a join or a close changes the state of a process in Host role,
\* the turnHistory it had is a prefix of the turnHistory it adopts.
C14_TurnHistoryAppendOnly ==
    [][\A c \in ConnIds :
          (/\ HostHandlesJoin(c) \/ HostHandlesClose(c)
           /\ gameState'[conns[c].dst] # gameState[conns[c].dst])
              => IsPrefix(gameState[conns[c].dst].turnHistory,
                          gameState'[conns[c].dst].turnHistory)]_vars

\* the step is an error or the close of the outbound connection c, the one to
\* the host its process designated, while that process is in Peer role
HostChannelFails(c) ==
    /\ role[conns[c].src] = "peer"
    /\ conns[c].dst = DesignatedHost(conns[c].src)
    /\ connError(c) \/ outboundClose(c)

\* C15: when the connection of a process in Peer role to its host errors or
\* closes, the process leaves Peer role and holds no game state.
C15_ChannelFailureRejects ==
    [][\A c \in ConnIds :
          HostChannelFails(c)
              => /\ role'[conns[c].src] # "peer"
                 /\ gameState'[conns[c].src] = NoState]_vars

\* the message the step delivers to p over connection c
Delivered(c, p) ==
    IF conns[c].dst = p THEN Head(conns[c].toDst) ELSE Head(conns[c].toSrc)

\* a message type that is not valid for a role
InvalidFor(type, r) ==
    \/ type = "player_join_request" /\ r \in {"peer", "none"}
    \/ type \in {"game_state_update", "welcome", "game_full"} /\ r = "host"

\* C16: a message that is not valid for the role of the process that handles
\* it changes neither its role, nor its game state, nor its registry, and
\* nothing is sent.
C16_InvalidMessageDropped ==
    [][\A c \in ConnIds : \A p \in Procs :
          (MessageStepAt(c, p) /\ InvalidFor(Delivered(c, p).type, role[p]))
              => /\ role'[p] = role[p]
                 /\ gameState'[p] = gameState[p]
                 /\ connectionsRef'[p] = connectionsRef[p]
                 /\ sent' = {}]_vars

\* p is Joining: in Peer role with no game state
Joining(p) == role[p] = "peer" /\ gameState[p] = NoState

\* p was turned away while Joining and has held no game state since: none of
\* its connections failed or closed on its side, so only a GameFull took it
\* out of Peer role, and nothing but a failed connection resets a game state
Rejected(p) ==
    /\ role[p] = "none"
    /\ gameState[p] = NoState
    /\ \E c \in ConnIds : conns[c].src = p
    /\ \A c \in ConnIds : conns[c].src = p => conns[c].srcEnd = "open"

\* the join requests of p among the messages of the step
JoinRequestsOf(p) ==
    {x \in OfType(sent', "player_join_request") : x.msg.payload.peerId = p}

\* C17: a GameFull handled by a Joining process takes it out of Peer role
\* with no game state, and from then on, unless joinGame is called again (a
\* new connection), it stays out of Peer role, holds no game state and sends
\* no join request.
C17_GameFullRejects ==
    [][\A p \in Procs :
          /\ \A c \in ConnIds :
                 (/\ Joining(p)
                  /\ MessageStepAt(c, p)
                  /\ Delivered(c, p).type = "game_full")
                     => role'[p] = "none" /\ gameState'[p] = NoState
          /\ (Rejected(p) /\ Len(conns') = Len(conns))
                 => /\ role'[p] # "peer"
                    /\ gameState'[p] = NoState
                    /\ JoinRequestsOf(p) = {}]_vars

\* after the step, no inbound connection from q has closed at p
NeverClosed(q, p) ==
    \A d \in ConnIds :
        (conns[d].src = q /\ conns[d].dst = p) => conns'[d].dstEnd # "closed"

\* C18: a joiner that is a Player of the state a host has adopted (it was
\* welcomed), and none of whose connections has closed, is still a Player
\* after the host handles another join request or a close, whether or not the
\* ref had caught up with the adopted state.
C18_AcceptedJoinNotLost ==
    [][\A c \in ConnIds : \A q \in Joiners :
          (/\ HostHandlesJoin(c) \/ HostHandlesClose(c)
           /\ HasPlayer(gameState[conns[c].dst], q)
           /\ NeverClosed(q, conns[c].dst))
              => HasPlayer(gameState'[conns[c].dst], q)]_vars

\* the registry of the process at the receiving end of c holds, for the peer
\* of c, a newer connection that is open
ReplacedByNewer(c) ==
    LET d == connectionsRef[conns[c].dst][conns[c].src]
    IN  /\ d # NoConn
        /\ d > c
        /\ conns[d].dstEnd = "open"

\* C19: the close of an inbound connection whose registry entry was replaced
\* by a newer, open connection of the same peer leaves that entry in place.
C19_OldCloseKeepsNewEntry ==
    [][\A c \in ConnIds :
          (ReplacedByNewer(c) /\ inboundClose(c))
              => connectionsRef'[conns[c].dst][conns[c].src] =
                     connectionsRef[conns[c].dst][conns[c].src]]_vars

\* C20: no two players of a host's players list have the same peerId.
C20_PeerIdsUnique ==
    \A p \in Procs :
        (role[p] = "host" /\ gameState[p] # NoState)
            => \A i, j \in DOMAIN gameState[p].players :
                   gameState[p].players[i].peerId = gameState[p].players[j].peerId
                       => i = j

====
